---- MODULE Spec2Model ----
(***************************************************************************)
(* Pose-extraction pipeline of bachatrainer's python-tools: the three      *)
(* extract_poses_from_video variants (TFLite, ExecuTorch, YOLOv8), the     *)
(* joint-angle calculator and the two pose-JSON validators.                *)
(*                                                                         *)
(* Number encodings.  TLC has no reals, so                                 *)
(*   - a confidence c in [0,1] is the integer 10*c (tenths);               *)
(*   - a normalised coordinate x in [0,1] is the integer x*MaxCoord;       *)
(*   - an angle is its value in degrees rounded to the nearest integer;    *)
(*   - a timestamp frame_num/fps is kept in milliseconds.                  *)
(***************************************************************************)
EXTENDS Integers, Sequences, FiniteSets, TLC

VARIABLES
    backend,      \* which preprocess_video*.py variant runs
    pc,           \* position inside extract_poses_from_video / the probe / the tool
    detector,     \* the detector object built at the start of the run
    cap,          \* the cv2.VideoCapture: "none", "open", "released"
    fps,          \* cap.get(CAP_PROP_FPS)
    total_frames, \* int(cap.get(CAP_PROP_FRAME_COUNT)): the container's estimate
    stream,       \* frames the capture will still deliver before ret == False
    frames_data,  \* the list of Frame records built by the loop
    frame_num,    \* the loop's frame counter
    disk,         \* content of the output path (NoFile until it is written)
    error,        \* the exception that left extract_poses_from_video, or "none"
    log,          \* what happened to each frame read (history of the run)
    probe,        \* arguments of the pure function under test
    report,       \* value returned (or exception raised) by the function under test
    progress_callback, \* the progress_callback argument: "None", or what the hook does
    tool,         \* the command-line tool that runs: batch_process*.py, regenerate_poses.py
    args,         \* its command-line flags
    videos_dir,   \* the file names in the directory of source videos
    video_files,  \* the list of videos it enumerated
    index,        \* videos of video_files the loop has gone through
    poses_dir,    \* the output directory: file name -> content
    backup_dir,   \* the backup directory: file name -> content
    success_count, \* the loop's success counter
    failed_videos \* the loop's list of (name, error) of failed videos

\* what the command-line tools own; extract_poses_from_video never touches it
batch_vars == <<tool, args, videos_dir, video_files, index, poses_dir, backup_dir,
                success_count, failed_videos>>

vars == <<backend, pc, detector, cap, fps, total_frames, stream, frames_data,
          frame_num, disk, error, log, probe, report, progress_callback, batch_vars>>

----------------------------------------------------------------------------
(* Bounds of the model *)

\* a normalised coordinate of 1.0; the coordinate grid is 0..MaxCoord
MaxCoord == 2
\* the most frames a source video delivers
MaxFrames == 3

----------------------------------------------------------------------------
(* Names shared by the three variants *)

KEYPOINT_NAMES ==
    << "nose", "leftEye", "rightEye", "leftEar", "rightEar",
       "leftShoulder", "rightShoulder", "leftElbow", "rightElbow",
       "leftWrist", "rightWrist", "leftHip", "rightHip",
       "leftKnee", "rightKnee", "leftAnkle", "rightAnkle" >>

KeypointNameSet == { KEYPOINT_NAMES[i] : i \in 1..Len(KEYPOINT_NAMES) }

expected_angles ==
    << "leftArm", "rightArm", "leftElbow", "rightElbow",
       "leftThigh", "rightThigh", "leftLeg", "rightLeg" >>

AngleNameSet == { expected_angles[i] : i \in 1..Len(expected_angles) }

Range(s) == { s[i] : i \in 1..Len(s) }

----------------------------------------------------------------------------
(* Joint Angle Calculator: calculate_angle *)

\* the hard-wired threshold 0.5 of the TFLite and ExecuTorch variants (tenths)
StrictThreshold == 5
\* the default min_confidence 0.3 of the YOLOv8 variant (tenths)
LenientThreshold == 3

\* cos((d - 0.5) degrees) squared, in millionths, with the sign of the cosine,
\* for d = 1..180
HalfDegreeCosSq ==
    <<
       999924, 999315, 998097, 996273, 993844, 990814, 987185, 982963, 978152, 972759,
       966790, 960252, 953154, 945503, 937310, 928584, 919335, 909576, 899318, 888573,
       877355, 865677, 853553, 840999, 828030, 814660, 800908, 786788, 772320, 757519,
       742405, 726995, 711309, 695366, 679184, 662784, 646186, 629410, 612476, 595404,
       578217, 560935, 543578, 526168, 508726, 491274, 473832, 456422, 439065, 421783,
       404596, 387524, 370590, 353814, 337216, 320816, 304634, 288691, 273005, 257595,
       242481, 227680, 213212, 199092, 185340, 171970, 159001, 146447, 134323, 122645,
       111427, 100682, 90424, 80665, 71416, 62690, 54497, 46846, 39748, 33210,
       27241, 21848, 17037, 12815, 9186, 6156, 3727, 1903, 685, 76,
       -76, -685, -1903, -3727, -6156, -9186, -12815, -17037, -21848, -27241,
       -33210, -39748, -46846, -54497, -62690, -71416, -80665, -90424, -100682, -111427,
       -122645, -134323, -146447, -159001, -171970, -185340, -199092, -213212, -227680, -242481,
       -257595, -273005, -288691, -304634, -320816, -337216, -353814, -370590, -387524, -404596,
       -421783, -439065, -456422, -473832, -491274, -508726, -526168, -543578, -560935, -578217,
       -595404, -612476, -629410, -646186, -662784, -679184, -695366, -711309, -726995, -742405,
       -757519, -772320, -786788, -800908, -814660, -828030, -840999, -853553, -865677, -877355,
       -888573, -899318, -909576, -919335, -928584, -937310, -945503, -953154, -960252, -966790,
       -972759, -978152, -982963, -987185, -990814, -993844, -996273, -998097, -999315, -999924
    >>

\* dot / sqrt(normsq) < cos((d - 0.5) degrees), decided on integers (normsq > 0,
\* t the table's entry for d)
CosBelow(dot, normsq, t) ==
    IF dot >= 0
    THEN t > 0 /\ dot * dot * 1000000 < t * normsq
    ELSE t >= 0 \/ dot * dot * 1000000 > (-t) * normsq

\* the quotient without the 1e-6: 0 / 0 for a zero-length vector is nan, which
\* is no number of [0,180] (written -1 here)
ArcCosDegreesNoEpsilon(dot, normsq) ==
    IF normsq = 0
    THEN -1
    ELSE Cardinality({ d \in 1..180 : CosBelow(dot, normsq, HalfDegreeCosSq[d]) })

\* np.degrees(np.arccos(np.clip(dot / (sqrt(normsq) + 1e-6), -1, 1))), rounded to
\* a whole degree.  A zero-length vector makes the quotient 0 / 1e-6 = 0, i.e. 90
\* degrees; otherwise the 1e-6 moves the quotient by less than the table resolves.
ArcCosDegrees(dot, normsq) ==
    IF normsq = 0
    THEN 90
    ELSE Cardinality({ d \in 1..180 : CosBelow(dot, normsq, HalfDegreeCosSq[d]) })

\* the geometry of calculate_angle: v1 = p1 - p2, v2 = p3 - p2
Geometry(p1, p2, p3) ==
    LET v1x == p1.x - p2.x
        v1y == p1.y - p2.y
        v2x == p3.x - p2.x
        v2y == p3.y - p2.y
    IN  ArcCosDegrees(v1x * v2x + v1y * v2y,
                      (v1x * v1x + v1y * v1y) * (v2x * v2x + v2y * v2y))

\* the gate with >= in place of >: a point exactly at the threshold passes
AllConfidentNonStrict(p1, p2, p3, min_confidence) ==
    /\ p1.confidence >= min_confidence
    /\ p2.confidence >= min_confidence
    /\ p3.confidence >= min_confidence

\* all(p['confidence'] > min_confidence for p in [p1, p2, p3])
AllConfident(p1, p2, p3, min_confidence) ==
    /\ p1.confidence > min_confidence
    /\ p2.confidence > min_confidence
    /\ p3.confidence > min_confidence

\* preprocess_video_yolov8.calculate_angle(p1, p2, p3, min_confidence=0.3)
calculate_angle_yolov8(p1, p2, p3, min_confidence) ==
    IF ~AllConfident(p1, p2, p3, min_confidence) THEN 0 ELSE Geometry(p1, p2, p3)

\* preprocess_video_executorch.calculate_angle(p1, p2, p3)
calculate_angle_executorch(p1, p2, p3) ==
    IF ~AllConfident(p1, p2, p3, StrictThreshold) THEN 0 ELSE Geometry(p1, p2, p3)

\* preprocess_video.calculate_angle(p1, p2, p3)
calculate_angle_tflite(p1, p2, p3) ==
    IF ~AllConfident(p1, p2, p3, StrictThreshold) THEN 0 ELSE Geometry(p1, p2, p3)


----------------------------------------------------------------------------
(* Python dicts are functions; exceptions are tagged results *)

EmptyDict == [k \in {} |-> 0]

Put(d, key, value) ==
    [k \in DOMAIN d \cup {key} |-> IF k = key THEN value ELSE d[k]]

Get(d, key, default) == IF key \in DOMAIN d THEN d[key] ELSE default

Ok(value) == [exc |-> "none", value |-> value]

Raise(kind) == [exc |-> kind]

----------------------------------------------------------------------------
(* Joint Angle Calculator: calculate_angles *)

\* calculate_angle as the calculate_angles of variant b calls it (the YOLOv8
\* variant passes no min_confidence, so the default applies)
AngleOf(b, p1, p2, p3) ==
    CASE b = "tflite" -> calculate_angle_tflite(p1, p2, p3)
      [] b = "executorch" -> calculate_angle_executorch(p1, p2, p3)
      [] OTHER -> calculate_angle_yolov8(p1, p2, p3, LenientThreshold)

\* one "if all(k in keypoints ...): angles[name] = calculate_angle(...)" block
TripleAngle(b, angles, keypoints, name, k1, k2, k3) ==
    IF {k1, k2, k3} \subseteq DOMAIN keypoints
    THEN Put(angles, name, AngleOf(b, keypoints[k1], keypoints[k2], keypoints[k3]))
    ELSE angles

\* the alias line without the lookup: angles[alias] = 0.0
AliasDefault(angles, alias, name) == Put(angles, alias, 0)

\* one "angles[alias] = angles.get(name, 0.0)" line
Alias(angles, alias, name) == Put(angles, alias, Get(angles, name, 0))

\* the body the three calculate_angles share, statement by statement
CalculateAngles(b, keypoints) ==
    LET a1 == TripleAngle(b, EmptyDict, keypoints, "leftArm",
                          "leftShoulder", "leftElbow", "leftWrist")
        a2 == TripleAngle(b, a1, keypoints, "rightArm",
                          "rightShoulder", "rightElbow", "rightWrist")
        a3 == Alias(a2, "leftElbow", "leftArm")
        a4 == Alias(a3, "rightElbow", "rightArm")
        a5 == TripleAngle(b, a4, keypoints, "leftThigh",
                          "leftHip", "leftKnee", "leftAnkle")
        a6 == TripleAngle(b, a5, keypoints, "rightThigh",
                          "rightHip", "rightKnee", "rightAnkle")
        a7 == Alias(a6, "leftLeg", "leftThigh")
    IN  Alias(a7, "rightLeg", "rightThigh")

calculate_angles_tflite(keypoints) == CalculateAngles("tflite", keypoints)

calculate_angles_executorch(keypoints) == CalculateAngles("executorch", keypoints)

calculate_angles_yolov8(keypoints) == CalculateAngles("yolov8", keypoints)

----------------------------------------------------------------------------
(* No command-line tool runs *)

NoBatch ==
    /\ tool = "none"
    /\ args = [no_backup |-> FALSE, no_delete |-> FALSE]
    /\ videos_dir = {}
    /\ video_files = <<>>
    /\ index = 0
    /\ poses_dir = EmptyDict
    /\ backup_dir = EmptyDict
    /\ success_count = 0
    /\ failed_videos = <<>>

----------------------------------------------------------------------------
(* What the neural model returns for one frame: an input of the run *)

Point(x, y, c) == [x |-> x, y |-> y, confidence |-> c]

IndexOf(name) == CHOOSE i \in 1..Len(KEYPOINT_NAMES) : KEYPOINT_NAMES[i] = name

\* a pose on the coordinate grid: every limb bent at a right angle, stretched, or
\* stretched with wrists and ankles beyond the right edge of the frame
PoseXY(shape, name) ==
    CASE name \in {"leftShoulder", "rightShoulder", "leftHip", "rightHip"} -> <<0, 0>>
      [] name \in {"leftElbow", "rightElbow", "leftKnee", "rightKnee"} -> <<1, 0>>
      [] name \in {"leftWrist", "rightWrist", "leftAnkle", "rightAnkle"} ->
             CASE shape = "bent" -> <<1, 1>>
               [] shape = "outside" -> <<MaxCoord + 1, 0>>
               [] OTHER -> <<MaxCoord, 0>>
      [] OTHER -> <<1, 1>>

\* (height, width) of the decoded frames, in pixels
FrameShape == <<2 * MaxCoord, 4 * MaxCoord>>

\* rows of a model output tensor.  layout "yxc": MoveNet rows (y, x, confidence);
\* "xyc": LightweightPoseModel rows (x, y, confidence), both normalised;
\* "pixels": YOLOv8 rows (x, y, confidence) in pixels of the original frame
Rows(layout, shape, conf, n) ==
    [i \in 1..n |->
        LET xy == PoseXY(shape, KEYPOINT_NAMES[i])
        IN  CASE layout = "yxc" -> <<xy[2], xy[1], conf>>
              [] layout = "xyc" -> <<xy[1], xy[2], conf>>
              [] OTHER -> <<xy[1] * 4, xy[2] * 2, conf>>]

NoResults ==
    [empty |-> TRUE, keypoints_none |-> TRUE, data |-> <<>>,
     boxes_none |-> TRUE, conf |-> <<>>]

\* the list ultralytics returns: results[0].keypoints.data and results[0].boxes.conf
Results(data, boxes_none, conf) ==
    [empty |-> FALSE, keypoints_none |-> FALSE, data |-> data,
     boxes_none |-> boxes_none, conf |-> conf]

\* a frame read from the capture together with what the model answers on it
FrameInput(malformed, rows, results) ==
    [malformed |-> malformed, rows |-> rows, results |-> results]

FrameInputs(b) ==
    CASE b = "tflite" ->
           { FrameInput(TRUE, <<>>, NoResults),
             FrameInput(FALSE, Rows("yxc", "bent", 9, 17), NoResults),
             FrameInput(FALSE, Rows("yxc", "straight", 5, 17), NoResults),
             FrameInput(FALSE, Rows("yxc", "bent", 9, 16), NoResults) }
      [] b = "executorch" ->
           { FrameInput(TRUE, <<>>, NoResults),
             FrameInput(FALSE, Rows("xyc", "bent", 9, 17), NoResults),
             FrameInput(FALSE, Rows("xyc", "straight", 5, 17), NoResults),
             FrameInput(FALSE, Rows("xyc", "bent", 9, 16), NoResults) }
      [] OTHER ->
           { FrameInput(TRUE, <<>>, NoResults),
             FrameInput(FALSE, <<>>, NoResults),
             FrameInput(FALSE, <<>>, [NoResults EXCEPT !.empty = FALSE]),
             FrameInput(FALSE, <<>>, Results(<<>>, FALSE, <<>>)),
             FrameInput(FALSE, <<>>,
                        Results(<<Rows("pixels", "bent", 9, 17)>>, FALSE, <<8>>)),
             FrameInput(FALSE, <<>>,
                        Results(<<Rows("pixels", "bent", 4, 17)>>, TRUE, <<>>)),
             FrameInput(FALSE, <<>>,
                        Results(<<Rows("pixels", "bent", 9, 17),
                                  Rows("pixels", "straight", 6, 17)>>,
                                FALSE, <<4, 8>>)) }

----------------------------------------------------------------------------
(* Keypoint Detector: construction *)

NoDetector == [use_executorch |-> FALSE, has_module |-> FALSE, has_model |-> FALSE]

\* load_tflite_model: tf.lite.Interpreter(...) raises when the model cannot be loaded
load_tflite_model(loads) ==
    IF loads THEN Ok([NoDetector EXCEPT !.has_model = TRUE]) ELSE Raise("ValueError")

\* ExecuTorchPoseDetector.__init__(model_path, use_executorch); runtimeLoads: the
\* ExecuTorch import and _load_for_executorch succeed; loads: torch.load succeeds
ExecuTorchPoseDetector_init(use_executorch, runtimeLoads, loads) ==
    LET s0 == [NoDetector EXCEPT !.use_executorch = use_executorch]
        s1 == IF use_executorch
              THEN IF runtimeLoads
                   THEN [s0 EXCEPT !.has_module = TRUE]
                   ELSE [s0 EXCEPT !.use_executorch = FALSE]
              ELSE s0
    IN  IF ~use_executorch
        THEN IF loads THEN Ok([s1 EXCEPT !.has_model = TRUE]) ELSE Raise("RuntimeError")
        ELSE Ok(s1)

\* YOLOv8PoseDetector.__init__: the ultralytics import or YOLO(model_name) may raise
YOLOv8PoseDetector_init(imports, loads) ==
    IF ~imports THEN Raise("ImportError")
    ELSE IF ~loads THEN Raise("FileNotFoundError")
    ELSE Ok([NoDetector EXCEPT !.has_model = TRUE])

\* the first statement of extract_poses_from_video, per variant
Construct(b, use_executorch, ready, loads) ==
    CASE b = "tflite" -> load_tflite_model(loads)
      [] b = "executorch" -> ExecuTorchPoseDetector_init(use_executorch, ready, loads)
      [] OTHER -> YOLOv8PoseDetector_init(ready, loads)

----------------------------------------------------------------------------
(* Keypoint Detector: detect_pose *)

\* preprocess_video.detect_pose: rows are (y, x, confidence); names beyond the
\* rows the model returned get no entry
detect_pose_tflite(frame) ==
    IF frame.malformed THEN Raise("cv2.error")
    ELSE Ok([name \in { KEYPOINT_NAMES[i] : i \in 1..Len(frame.rows) } |->
                LET row == frame.rows[IndexOf(name)]
                IN  Point(row[2], row[1], row[3])])

\* ExecuTorchPoseDetector.parse_keypoints: output_np[i] for all 17 names
parse_keypoints(output) ==
    IF Len(output) < Len(KEYPOINT_NAMES) THEN Raise("IndexError")
    ELSE Ok([name \in KeypointNameSet |->
                LET row == output[IndexOf(name)]
                IN  Point(row[1], row[2], row[3])])

\* ExecuTorchPoseDetector.detect_pose
detect_pose_executorch(self, frame) ==
    IF frame.malformed THEN Raise("cv2.error")
    ELSE IF self.use_executorch /\ ~self.has_module THEN Raise("AttributeError")
    ELSE IF ~self.use_executorch /\ ~self.has_model THEN Raise("AttributeError")
    ELSE parse_keypoints(frame.rows)

\* always the first detection, whatever the scores
ArgFirst(conf) == 1

\* confidences.argmax(): the first index holding the maximum
ArgMax(conf) ==
    CHOOSE i \in 1..Len(conf) :
        /\ \A j \in 1..Len(conf) : conf[j] <= conf[i]
        /\ \A j \in 1..(i - 1) : conf[j] < conf[i]

ZeroKeypoints == [name \in KeypointNameSet |-> Point(0, 0, 0)]

\* YOLOv8PoseDetector._parse_results(results, original_shape)
parse_results(results, original_shape) ==
    LET orig_h == original_shape[1]
        orig_w == original_shape[2]
    IN  IF results.empty \/ results.keypoints_none THEN ZeroKeypoints
        ELSE IF Len(results.data) = 0 THEN ZeroKeypoints
        ELSE LET best_idx == IF ~results.boxes_none /\ Len(results.conf) > 0
                             THEN ArgMax(results.conf)
                             ELSE 1
                 kpts_data == results.data[best_idx]
             IN  [name \in KeypointNameSet |->
                    IF IndexOf(name) <= Len(kpts_data)
                    THEN LET row == kpts_data[IndexOf(name)]
                         IN  Point((row[1] * MaxCoord) \div orig_w,
                                   (row[2] * MaxCoord) \div orig_h,
                                   row[3])
                    ELSE ZeroKeypoints[name]]

\* YOLOv8PoseDetector.detect_pose
detect_pose_yolov8(self, frame) ==
    IF frame.malformed THEN Raise("cv2.error")
    ELSE IF ~self.has_model THEN Raise("AttributeError")
    ELSE Ok(parse_results(frame.results, FrameShape))

----------------------------------------------------------------------------
(* The persisted document: JSON values, as json.dump writes and json.load reads *)

JNull == [t |-> "null"]
JBool(b) == [t |-> "bool", v |-> b]
JInt(n) == [t |-> "int", v |-> n]
JFloat(n) == [t |-> "float", v |-> n]
JStr(s) == [t |-> "str", v |-> s]
JList(s) == [t |-> "list", v |-> s]
JObj(d) == [t |-> "dict", v |-> d]

\* the output path holds no file / a file that is not JSON
NoFile == [t |-> "nofile"]
BadJson == [t |-> "badjson"]

\* one Frame record of frames_data, as json.dump writes it
FrameJson(f) ==
    JObj([frameNumber |-> JInt(f.frameNumber),
          timestamp |-> JFloat(f.timestamp),
          keypoints |-> JObj([name \in DOMAIN f.keypoints |->
                                JObj([x |-> JFloat(f.keypoints[name].x),
                                      y |-> JFloat(f.keypoints[name].y),
                                      confidence |->
                                          JFloat(f.keypoints[name].confidence)])]),
          angles |-> JObj([name \in DOMAIN f.angles |-> JFloat(f.angles[name])])])

\* Path(video_path).stem of the one video the run is given
song_id == "clip"

\* an output dict in which the YOLOv8 variant names the frame count frameCount
OutputJsonOwnKeys(b, fpsValue, frameNum, frames) ==
    LET common == [songId |-> JStr(song_id),
                   fps |-> JFloat(fpsValue),
                   frames |-> JList([i \in 1..Len(frames) |-> FrameJson(frames[i])])]
    IN  IF b = "yolov8"
        THEN JObj(Put(common, "frameCount", JInt(frameNum)))
        ELSE JObj(Put(common, "totalFrames", JInt(frameNum)))

\* the output dict of extract_poses_from_video; only the YOLOv8 variant adds the
\* two model tags
OutputJson(b, fpsValue, frameNum, frames) ==
    LET required == [songId |-> JStr(song_id),
                     fps |-> JFloat(fpsValue),
                     totalFrames |-> JInt(frameNum),
                     frames |-> JList([i \in 1..Len(frames) |-> FrameJson(frames[i])])]
    IN  IF b = "yolov8"
        THEN JObj(Put(Put(required, "modelVersion", JStr("yolov8s-pose")),
                      "modelAccuracy", JStr("64.0 AP (COCO)")))
        ELSE JObj(required)

----------------------------------------------------------------------------
(* Sequence Assembler: extract_poses_from_video *)

Backends == {"tflite", "executorch", "yolov8"}

\* frame rates the containers report
FpsValues == {25, 30}

Idle == [fn |-> "none"]

Frame(num, fpsValue, keypoints, angles) ==
    [frameNumber |-> num,
     timestamp |-> (num * 1000) \div fpsValue,
     keypoints |-> keypoints,
     angles |-> angles]

\* the frame the YOLOv8 variant appends in its except branch
EmptyFrame(num, fpsValue) == Frame(num, fpsValue, ZeroKeypoints, EmptyDict)

\* detector.detect_pose(frame) / detect_pose(interpreter, frame), per variant
Detect(b, self, frame) ==
    CASE b = "tflite" -> detect_pose_tflite(frame)
      [] b = "executorch" -> detect_pose_executorch(self, frame)
      [] OTHER -> detect_pose_yolov8(self, frame)

Angles(b, keypoints) ==
    CASE b = "tflite" -> calculate_angles_tflite(keypoints)
      [] b = "executorch" -> calculate_angles_executorch(keypoints)
      [] OTHER -> calculate_angles_yolov8(keypoints)

\* what one pass of the loop body appends to frames_data when detection raised:
\* the ExecuTorch variant only prints, the YOLOv8 variant appends an empty frame
OnFrameError(b, frames, num, fpsValue) ==
    IF b = "yolov8" THEN Append(frames, EmptyFrame(num, fpsValue)) ELSE frames

\* the progress hook is called after every ProgressEvery-th frame
ProgressEvery == 10

\* progress_callback: no hook, a hook that returns, a hook that raises
Hooks == {"None", "returns", "raises"}

\* a file that lies at the output path before the run
OldFile == JStr("previous document")

\* frames of a video of the given length: any mix of model answers in a short
\* video; a long video (long enough for the hook to be called) holds
\* well-formed frames with one clearly visible dancer
FramesOf(b, length) ==
    IF length <= MaxFrames
    THEN FrameInputs(b)
    ELSE CASE b = "tflite" -> { FrameInput(FALSE, Rows("yxc", "bent", 9, 17), NoResults) }
           [] b = "executorch" -> { FrameInput(FALSE, Rows("xyc", "bent", 9, 17), NoResults) }
           [] OTHER -> { FrameInput(FALSE, <<>>,
                                    Results(<<Rows("pixels", "bent", 9, 17)>>, FALSE, <<8>>)) }

\* "if progress_callback and frame_num % 10 == 0: progress_callback(frame_num,
\* total_frames)" with a hook that raises
HookRaises(num) == progress_callback = "raises" /\ num % ProgressEvery = 0

\* the output file is opened for writing when the video is opened, and the
\* failure to open the video leaves it empty
OpenVideoCreatingOutput ==
    /\ pc = "open"
    /\ cap' = "closed"
    /\ pc' = "raised"
    /\ error' = "ValueError"
    /\ disk' = BadJson
    /\ frames_data' = <<>>
    /\ frame_num' = 0
    /\ UNCHANGED <<backend, detector, fps, total_frames, stream, log, probe, report>>
    /\ UNCHANGED <<progress_callback, batch_vars>>

Init ==
    /\ backend \in Backends
    /\ pc = "load"
    /\ detector = NoDetector
    /\ cap = "none"
    /\ fps = 0
    /\ total_frames = 0
    /\ stream = 0
    /\ frames_data = <<>>
    /\ frame_num = 0
    /\ disk \in {NoFile, OldFile}
    /\ error = "none"
    /\ log = <<>>
    /\ probe = Idle
    /\ report = Idle
    /\ progress_callback \in Hooks
    /\ NoBatch

\* "Load model": the detector is built before the video is opened
LoadDetector ==
    /\ pc = "load"
    /\ \E use_executorch \in BOOLEAN, ready \in BOOLEAN, loads \in BOOLEAN :
         LET r == Construct(backend, use_executorch, ready, loads)
         IN  IF r.exc = "none"
             THEN /\ detector' = r.value
                  /\ pc' = "open"
                  /\ error' = error
             ELSE /\ detector' = detector
                  /\ pc' = "raised"
                  /\ error' = r.exc
    /\ UNCHANGED <<backend, cap, fps, total_frames, stream, frames_data, frame_num,
                   disk, log, probe, report>>
    /\ UNCHANGED <<progress_callback, batch_vars>>

\* "Open video": cv2.VideoCapture, isOpened, CAP_PROP_FPS, CAP_PROP_FRAME_COUNT
OpenVideo ==
    /\ pc = "open"
    /\ \E opened \in BOOLEAN, f \in FpsValues,
          estimate \in {0, MaxFrames},
          delivered \in (0..MaxFrames) \cup {ProgressEvery} :
         IF opened
         THEN /\ cap' = "open"
              /\ fps' = f
              /\ total_frames' = estimate
              /\ stream' = delivered
              /\ pc' = "loop"
              /\ error' = error
         ELSE /\ cap' = "closed"
              /\ pc' = "raised"
              /\ error' = "ValueError"
              /\ UNCHANGED <<fps, total_frames, stream>>
    /\ frames_data' = <<>>
    /\ frame_num' = 0
    /\ UNCHANGED <<backend, detector, disk, log, probe, report>>
    /\ UNCHANGED <<progress_callback, batch_vars>>

\* one pass of the while loop with ret == True
ProcessFrame ==
    /\ pc = "loop"
    /\ stream > 0
    /\ stream' = stream - 1
    /\ \E frame \in FramesOf(backend, stream + Len(log)) :
         LET r == Detect(backend, detector, frame)
         IN  IF r.exc # "none" /\ backend = "tflite"
             THEN \* no try around the loop body: the exception leaves the function
                  /\ pc' = "raised"
                  /\ error' = r.exc
                  /\ log' = Append(log, "failed")
                  /\ UNCHANGED <<frames_data, frame_num>>
             ELSE /\ frames_data' =
                        IF r.exc = "none"
                        THEN Append(frames_data,
                                    Frame(frame_num, fps, r.value, Angles(backend, r.value)))
                        ELSE OnFrameError(backend, frames_data, frame_num, fps)
                  /\ frame_num' = frame_num + 1
                  /\ log' = Append(log, IF r.exc = "none" THEN "detected" ELSE "failed")
                  /\ IF HookRaises(frame_num + 1)
                     THEN \* the hook is called outside the try: its exception
                          \* leaves the function
                          /\ pc' = "raised"
                          /\ error' = "HookError"
                     ELSE UNCHANGED <<pc, error>>
    /\ UNCHANGED <<backend, detector, cap, fps, total_frames, disk, probe, report>>
    /\ UNCHANGED <<progress_callback, batch_vars>>

\* ret == False: break, cap.release(), build the output dict, mkdir, json.dump
EndOfStream ==
    /\ pc = "loop"
    /\ stream = 0
    /\ cap' = "released"
    /\ \E writable \in BOOLEAN :
         IF writable
         THEN /\ disk' = OutputJson(backend, fps, frame_num, frames_data)
              /\ pc' = "done"
              /\ error' = error
         ELSE \* mkdir or open fails and the path is untouched, or json.dump
              \* fails and leaves a truncated file
              /\ disk' \in {disk, BadJson}
              /\ pc' = "raised"
              /\ error' = "OSError"
    /\ UNCHANGED <<backend, detector, fps, total_frames, stream, frames_data,
                   frame_num, log, probe, report>>
    /\ UNCHANGED <<progress_callback, batch_vars>>


----------------------------------------------------------------------------
(* Validator: Python's operators on the values json.load returns *)

\* "key in v" and "for ... in v" raise TypeError unless v is a dict, list or str
Iterable(v) == v.t \in {"dict", "list", "str"}

\* key in v, for an iterable v.  The strings of the model are whole words, so a
\* string contains a key only when it is that key.
Contains(v, key) ==
    CASE v.t = "dict" -> key \in DOMAIN v.v
      [] v.t = "list" -> \E i \in 1..Len(v.v) : v.v[i].t = "str" /\ v.v[i].v = key
      [] OTHER -> v.v = key

\* isinstance(v, (int, float)); bool is a subclass of int
IsNumber(v) == v.t \in {"int", "float", "bool"}

\* isinstance(v, int)
IsInt(v) == v.t \in {"int", "bool"}

NumValue(v) == IF v.t = "bool" THEN (IF v.v THEN 1 ELSE 0) ELSE v.v

\* one "if cond: errors.append(err)"
ErrorIf(cond, err) == IF cond THEN <<err>> ELSE <<>>

\* the keys of a dict in the order the loop visits them (the model keeps no
\* insertion order: a fixed order is chosen)
RECURSIVE KeysOf(_)
KeysOf(keys) ==
    IF keys = {} THEN <<>>
    ELSE LET k == CHOOSE x \in keys : TRUE
         IN  <<k>> \o KeysOf(keys \ {k})

\* "return True, errors" in place of "return len(errors) == 0, errors"
ReturnValid(errors) == [exc |-> "none", is_valid |-> TRUE, errors |-> errors]

\* what validate_pose_json hands back: a (is_valid, errors) pair
Return(errors) == [exc |-> "none", is_valid |-> Len(errors) = 0, errors |-> errors]

ReturnInvalid(errors) == [exc |-> "none", is_valid |-> FALSE, errors |-> errors]

required_fields == <<"songId", "fps", "totalFrames", "frames">>

required_frame_fields == <<"frameNumber", "timestamp", "keypoints", "angles">>

required_kp_fields == <<"x", "y", "confidence">>

\* "for field in required_fields: if field not in data: errors.append(...)"
RECURSIVE MissingFields(_, _, _, _)
MissingFields(data, fields, i, message) ==
    IF i > Len(fields) THEN <<>>
    ELSE ErrorIf(~Contains(data, fields[i]), <<message, fields[i]>>)
         \o MissingFields(data, fields, i + 1, message)

\* the type checks as an if / elif chain: only the first failing check reports
TypeErrorsFirstOnly(data) ==
    IF data.v.songId.t # "str" THEN << <<"songId must be a string">> >>
    ELSE IF ~IsNumber(data.v.fps) \/ NumValue(data.v.fps) <= 0
    THEN << <<"fps must be a positive number">> >>
    ELSE ErrorIf(~IsInt(data.v.totalFrames) \/ NumValue(data.v.totalFrames) <= 0,
                 <<"totalFrames must be a positive integer">>)

\* the three type checks both validators make after the required-field check
TypeErrors(data) ==
    ErrorIf(data.v.songId.t # "str", <<"songId must be a string">>)
    \o ErrorIf(~IsNumber(data.v.fps) \/ NumValue(data.v.fps) <= 0,
               <<"fps must be a positive number">>)
    \o ErrorIf(~IsInt(data.v.totalFrames) \/ NumValue(data.v.totalFrames) <= 0,
               <<"totalFrames must be a positive integer">>)

\* len(data['frames']) != data['totalFrames']
LengthDiffers(frames, totalFrames) ==
    ~(IsNumber(totalFrames) /\ NumValue(totalFrames) = Len(frames.v))

----------------------------------------------------------------------------
(* validate_json.validate_pose_json *)

\* "for kp_name, kp_data in frame['keypoints'].items()" of validate_json.py
RECURSIVE KeypointErrorsJson(_, _, _, _)
KeypointErrorsJson(keypoints, names, i, idx) ==
    IF i > Len(names) THEN <<>>
    ELSE LET kp_name == names[i]
             kp_data == keypoints.v[kp_name]
             here == IF kp_data.t # "dict"
                     THEN << <<"Frame: keypoint must be a dict", idx, kp_name>> >>
                     ELSE ErrorIf("x" \notin DOMAIN kp_data.v,
                                  <<"Frame: keypoint missing x", idx, kp_name>>)
                          \o ErrorIf("y" \notin DOMAIN kp_data.v,
                                     <<"Frame: keypoint missing y", idx, kp_name>>)
                          \o ErrorIf("confidence" \notin DOMAIN kp_data.v,
                                     <<"Frame: keypoint missing confidence", idx, kp_name>>)
         IN  here \o KeypointErrorsJson(keypoints, names, i + 1, idx)

\* "for angle_name in expected_angles: if angle_name not in frame['angles']"
RECURSIVE MissingAngles(_, _, _)
MissingAngles(angles, i, idx) ==
    IF i > Len(expected_angles) THEN <<>>
    ELSE ErrorIf(expected_angles[i] \notin DOMAIN angles.v,
                 <<"Frame: missing angle", idx, expected_angles[i]>>)
         \o MissingAngles(angles, i + 1, idx)

\* the body of "for idx in frames_to_check" for one frame
FrameErrorsJson(frame, idx) ==
    IF ~Iterable(frame) THEN Raise("TypeError")
    ELSE IF frame.t # "dict" /\ (Contains(frame, "keypoints") \/ Contains(frame, "angles"))
    THEN Raise("TypeError")
    ELSE Ok(ErrorIf(~Contains(frame, "frameNumber"), <<"Frame: missing frameNumber", idx>>)
            \o ErrorIf(~Contains(frame, "timestamp"), <<"Frame: missing timestamp", idx>>)
            \o ErrorIf(~Contains(frame, "keypoints"), <<"Frame: missing keypoints", idx>>)
            \o ErrorIf(~Contains(frame, "angles"), <<"Frame: missing angles", idx>>)
            \o (IF Contains(frame, "keypoints") /\ frame.v.keypoints.t = "dict"
                THEN KeypointErrorsJson(frame.v.keypoints,
                                        KeysOf(DOMAIN frame.v.keypoints.v), 1, idx)
                ELSE <<>>)
            \o (IF Contains(frame, "angles") /\ frame.v.angles.t = "dict"
                THEN MissingAngles(frame.v.angles, 1, idx)
                ELSE <<>>))

\* "for idx in frames_to_check", an exception ending the loop
RECURSIVE SampledFrameErrors(_, _, _)
SampledFrameErrors(frames, frames_to_check, i) ==
    IF i > Len(frames_to_check) THEN Ok(<<>>)
    ELSE LET idx == frames_to_check[i]
         IN  IF idx >= Len(frames.v)
             THEN SampledFrameErrors(frames, frames_to_check, i + 1)
             ELSE LET here == FrameErrorsJson(frames.v[idx + 1], idx)
                      rest == SampledFrameErrors(frames, frames_to_check, i + 1)
                  IN  IF here.exc # "none" THEN here
                      ELSE IF rest.exc # "none" THEN rest
                      ELSE Ok(here.value \o rest.value)

validate_json(file) ==
    IF file.t = "nofile" THEN ReturnInvalid(<< <<"File not found">> >>)
    ELSE IF file.t = "badjson" THEN ReturnInvalid(<< <<"Invalid JSON">> >>)
    ELSE IF ~Iterable(file) THEN Raise("TypeError")
    ELSE LET data == file
             missing == MissingFields(data, required_fields, 1, "Missing required field")
         IN  IF Len(missing) > 0 THEN ReturnInvalid(missing)
             ELSE IF data.t # "dict" THEN Raise("TypeError")
             ELSE LET errors == TypeErrors(data)
                      frames == data.v.frames
                  IN  IF frames.t # "list"
                      THEN ReturnInvalid(errors \o << <<"frames must be a list">> >>)
                      ELSE LET mismatch ==
                                   ErrorIf(LengthDiffers(frames, data.v.totalFrames),
                                           <<"Frame count mismatch">>)
                               frames_to_check ==
                                   IF Len(frames.v) > 1
                                   THEN <<0, Len(frames.v) - 1>>
                                   ELSE <<0>>
                               sampled == SampledFrameErrors(frames, frames_to_check, 1)
                           IN  IF sampled.exc # "none" THEN sampled
                               ELSE Return(errors \o mismatch \o sampled.value)

----------------------------------------------------------------------------
(* validate_poses.validate_pose_json *)

\* "for kp_name in expected_keypoints: if kp_name in frame['keypoints']: ..."
RECURSIVE KeypointErrorsPoses(_, _)
KeypointErrorsPoses(keypoints, i) ==
    IF i > Len(KEYPOINT_NAMES) THEN Ok(<<>>)
    ELSE LET kp_name == KEYPOINT_NAMES[i]
             rest == KeypointErrorsPoses(keypoints, i + 1)
         IN  IF kp_name \notin DOMAIN keypoints.v THEN rest
             ELSE LET kp == keypoints.v[kp_name]
                  IN  IF ~Iterable(kp) THEN Raise("TypeError")
                      ELSE IF rest.exc # "none" THEN rest
                      ELSE Ok(ErrorIf(\E k \in Range(required_kp_fields) : ~Contains(kp, k),
                                      <<"Keypoint missing x, y, or confidence", kp_name>>)
                              \o rest.value)

\* "for angle_name in expected_angles: if angle_name in frame['angles']: ..."
RECURSIVE AngleErrorsPoses(_, _)
AngleErrorsPoses(angles, i) ==
    IF i > Len(expected_angles) THEN <<>>
    ELSE LET angle_name == expected_angles[i]
             here == IF angle_name \notin DOMAIN angles.v THEN <<>>
                     ELSE LET angle == angles.v[angle_name]
                          IN  IF ~IsNumber(angle)
                              THEN << <<"Angle must be a number", angle_name>> >>
                              ELSE ErrorIf(NumValue(angle) < 0 \/ NumValue(angle) > 180,
                                           <<"Angle out of range (0-180)", angle_name>>)
         IN  here \o AngleErrorsPoses(angles, i + 1)

\* the checks on data['frames'][0]
FirstFrameErrorsPoses(frame) ==
    IF ~Iterable(frame) THEN Raise("TypeError")
    ELSE IF frame.t # "dict" /\ (Contains(frame, "keypoints") \/ Contains(frame, "angles"))
    THEN Raise("TypeError")
    ELSE LET fields == MissingFields(frame, required_frame_fields, 1,
                                     "Frame missing required field")
             keypoints ==
                 IF ~Contains(frame, "keypoints") THEN Ok(<<>>)
                 ELSE IF frame.v.keypoints.t # "dict"
                 THEN Ok(<< <<"keypoints must be an object">> >>)
                 ELSE KeypointErrorsPoses(frame.v.keypoints, 1)
             angles ==
                 IF ~Contains(frame, "angles") THEN <<>>
                 ELSE IF frame.v.angles.t # "dict"
                 THEN << <<"angles must be an object">> >>
                 ELSE AngleErrorsPoses(frame.v.angles, 1)
         IN  IF keypoints.exc # "none" THEN keypoints
             ELSE Ok(fields \o keypoints.value \o angles)

validate_poses(file) ==
    IF file.t = "nofile" THEN ReturnInvalid(<< <<"File not found">> >>)
    ELSE IF file.t = "badjson" THEN ReturnInvalid(<< <<"Invalid JSON">> >>)
    ELSE IF ~Iterable(file) THEN Raise("TypeError")
    ELSE LET data == file
             missing == MissingFields(data, required_fields, 1, "Missing required field")
         IN  IF Len(missing) > 0 THEN ReturnInvalid(missing)
             ELSE IF data.t # "dict" THEN Raise("TypeError")
             ELSE LET errors == TypeErrors(data)
                      frames == data.v.frames
                  IN  IF frames.t # "list"
                      THEN Return(errors \o << <<"frames must be an array">> >>)
                      ELSE LET mismatch ==
                                   ErrorIf(LengthDiffers(frames, data.v.totalFrames),
                                           <<"frames array length doesn't match totalFrames">>)
                               first == IF Len(frames.v) > 0
                                        THEN FirstFrameErrorsPoses(frames.v[1])
                                        ELSE Ok(<<>>)
                           IN  IF first.exc # "none" THEN first
                               ELSE Return(errors \o mismatch \o first.value)

----------------------------------------------------------------------------
(* Running a validator on the file at the output path *)

Reported(name, result) ==
    /\ pc' = "validated"
    /\ report' = [fn |-> name, out |-> result]
    /\ UNCHANGED <<backend, detector, cap, fps, total_frames, stream, frames_data,
                   frame_num, disk, error, log, probe>>
    /\ UNCHANGED <<progress_callback, batch_vars>>

\* python validate_json.py <output path>
ValidateJson ==
    /\ pc = "done"
    /\ Reported("validate_json", validate_json(disk))

\* python validate_poses.py --dir <output directory>
ValidatePoses ==
    /\ pc = "done"
    /\ Reported("validate_poses", validate_poses(disk))

\* a run of extract_poses_from_video, then either validator on what it wrote
Next ==
    \/ LoadDetector
    \/ OpenVideo
    \/ ProcessFrame
    \/ EndOfStream
    \/ ValidateJson
    \/ ValidatePoses

Spec == Init /\ [][Next]_vars

----------------------------------------------------------------------------
(* The written document, read back field by field *)

Written == disk.t = "dict"

DocFrames == disk.v.frames.v

DocTotalFrames == disk.v.totalFrames.v

\* exceptions raised by the work on one frame
FrameErrors == {"cv2.error", "AttributeError", "IndexError"}

\* the detector holds a model it can run
Loaded == detector.has_model \/ detector.has_module

\* frame record i of the document is the record of a failed detection: all 17
\* keypoints at confidence 0 and no angle other than 0
IsFailureRecord(i) ==
    LET f == DocFrames[i].v
    IN  /\ DOMAIN f.keypoints.v = KeypointNameSet
        /\ \A name \in KeypointNameSet : f.keypoints.v[name].v.confidence.v = 0
        /\ \A a \in DOMAIN f.angles.v : f.angles.v[a].v = 0

----------------------------------------------------------------------------
(* Claims about extract_poses_from_video *)

\* C1: in every written document totalFrames equals the length of frames.
C1_TotalFramesIsLength == Written => DocTotalFrames = Len(DocFrames)

\* C2: an exception raised while a frame is processed never leaves
\* extract_poses_from_video: a run in which a frame failed can only end with a
\* written document or with the fatal error of the write itself.
C2_BadFrameNeverAborts ==
    (pc = "raised" /\ "failed" \in Range(log)) => error \notin FrameErrors

\* C3: every frame read whose detection failed has a record in the document,
\* with its frameNumber, 17 zero-confidence keypoints and empty or zero angles.
C3_FailedFrameHasRecord ==
    Written =>
        \A k \in 1..Len(log) :
            log[k] = "failed" =>
                \E i \in 1..Len(DocFrames) :
                    /\ DocFrames[i].v.frameNumber.v = k - 1
                    /\ IsFailureRecord(i)

\* C4: frames[i].frameNumber = i for every index i of a written document
\* (indices from 0 in the document, from 1 in the sequence).
C4_FrameNumbersContiguous ==
    Written => \A i \in 1..Len(DocFrames) : DocFrames[i].v.frameNumber.v = i - 1

\* C5: every Frame record of a written document has exactly the 17 canonical
\* keypoint names as the keys of its keypoints mapping.
C5_SeventeenKeypoints ==
    Written =>
        \A i \in 1..Len(DocFrames) : DOMAIN DocFrames[i].v.keypoints.v = KeypointNameSet

\* C7: when the detector could not be loaded, the run ends with an error before
\* any frame is read and without writing a document.
C7_LoadFailureIsFatal ==
    (pc # "load" /\ ~Loaded) => (pc = "raised" /\ log = <<>> /\ ~Written)

----------------------------------------------------------------------------
(* calculate_angle on its own: three points with any coordinates of the grid
   and any confidence around the two thresholds *)

Confidences == {2, 3, 4, 5, 6}

GridPoints ==
    { Point(x, y, c) : x \in 0..MaxCoord, y \in 0..MaxCoord, c \in Confidences }

InitAngle ==
    /\ backend = "none"
    /\ pc = "call"
    /\ detector = NoDetector
    /\ cap = "none"
    /\ fps = 0
    /\ total_frames = 0
    /\ stream = 0
    /\ frames_data = <<>>
    /\ frame_num = 0
    /\ disk = NoFile
    /\ error = "none"
    /\ log = <<>>
    /\ probe \in [fn : {"calculate_angle"}, p1 : GridPoints, p2 : GridPoints,
                  p3 : GridPoints]
    /\ report = Idle
    /\ progress_callback = "None"
    /\ NoBatch

Returned(variant, min_confidence, result) ==
    /\ pc' = "returned"
    /\ report' = [fn |-> "calculate_angle", variant |-> variant,
                  min_confidence |-> min_confidence, result |-> result]
    /\ UNCHANGED <<backend, detector, cap, fps, total_frames, stream, frames_data,
                   frame_num, disk, error, log, probe>>
    /\ UNCHANGED <<progress_callback, batch_vars>>

CallAngleTFLite ==
    /\ pc = "call"
    /\ Returned("tflite", StrictThreshold,
                calculate_angle_tflite(probe.p1, probe.p2, probe.p3))

CallAngleExecuTorch ==
    /\ pc = "call"
    /\ Returned("executorch", StrictThreshold,
                calculate_angle_executorch(probe.p1, probe.p2, probe.p3))

CallAngleYOLOv8 ==
    /\ pc = "call"
    /\ \E min_confidence \in {LenientThreshold, StrictThreshold} :
         Returned("yolov8", min_confidence,
                  calculate_angle_yolov8(probe.p1, probe.p2, probe.p3, min_confidence))

NextAngle ==
    \/ CallAngleTFLite
    \/ CallAngleExecuTorch
    \/ CallAngleYOLOv8

SpecAngle == InitAngle /\ [][NextAngle]_vars

\* some point of the call is at or below the threshold the call used
Gated ==
    \E p \in {probe.p1, probe.p2, probe.p3} : p.confidence <= report.min_confidence

\* C8: calculate_angle returns exactly 0.0 whenever one of the three points has
\* confidence <= the threshold (equality included), whatever the coordinates,
\* and returns the geometric angle when all three are strictly above it.
C8_GatingRule ==
    pc = "returned" =>
        /\ Gated => report.result = 0
        /\ ~Gated => report.result = Geometry(probe.p1, probe.p2, probe.p3)

\* a call in which one confidence equals the threshold, the other two are above
\* it, the three points form a right angle, and 0 was returned
C8_Witness ==
    /\ pc = "returned"
    /\ probe.p1.confidence = report.min_confidence
    /\ probe.p2.confidence > report.min_confidence
    /\ probe.p3.confidence > report.min_confidence
    /\ Geometry(probe.p1, probe.p2, probe.p3) = 90
    /\ report.result = 0

----------------------------------------------------------------------------
(* The validators on their own: any file may lie at the path *)

\* the longest frames list of a sample document
MaxDocFrames == 2

WithoutKey(obj, key) == JObj([k \in DOMAIN obj.v \ {key} |-> obj.v[k]])

WithKey(obj, key, value) == JObj(Put(obj.v, key, value))

\* a frame as the YOLOv8 variant writes it for an empty detection
GoodFrame == FrameJson(Frame(0, 30, ZeroKeypoints, calculate_angles_yolov8(ZeroKeypoints)))

\* well-formed frames, frames with one defect, and values that are no frame
SampleFrames ==
    { GoodFrame,
      WithoutKey(GoodFrame, "frameNumber"),
      WithoutKey(GoodFrame, "angles"),
      WithKey(GoodFrame, "keypoints", JObj([nose |-> JInt(1)])),
      WithKey(GoodFrame, "keypoints", JObj([nose |-> JObj([x |-> JFloat(0), y |-> JFloat(0)])])),
      WithKey(GoodFrame, "keypoints", JList(<<>>)),
      WithKey(GoodFrame, "angles", JObj(EmptyDict)),
      WithKey(GoodFrame, "angles", JObj([leftArm |-> JFloat(200)])),
      WithKey(GoodFrame, "angles", JObj([leftArm |-> JStr("wide")])),
      WithKey(GoodFrame, "angles", JObj(Put(GoodFrame.v.angles.v, "leftArm", JFloat(200)))),
      WithKey(GoodFrame, "angles", JNull),
      JInt(5),
      JNull,
      JStr("angles"),
      JList(<<JStr("keypoints")>>) }

FrameLists == UNION { [1..n -> SampleFrames] : n \in 0..MaxDocFrames }

Absent == [t |-> "absent"]

\* a JSON object with the given top-level values, an Absent one left out
Document(songId, fpsValue, totalFrames, frames) ==
    LET all == [songId |-> songId, fps |-> fpsValue,
                totalFrames |-> totalFrames, frames |-> frames]
    IN  JObj([k \in { f \in DOMAIN all : all[f].t # "absent" } |-> all[k]])

SampleFiles ==
    { Document(s, f, n, fr) :
        s \in {Absent, JStr("clip"), JInt(7)},
        f \in {Absent, JFloat(30), JInt(0)},
        n \in {Absent, JInt(0), JInt(1), JInt(2), JStr("two")},
        fr \in {Absent, JNull} \cup { JList(l) : l \in FrameLists } }
    \cup { NoFile, BadJson, JNull, JInt(3), JStr("clip"), JList(<<>>),
           JList(<<JStr("songId"), JStr("fps"), JStr("totalFrames"), JStr("frames")>>) }

InitValidate ==
    /\ backend = "none"
    /\ pc = "done"
    /\ detector = NoDetector
    /\ cap = "none"
    /\ fps = 0
    /\ total_frames = 0
    /\ stream = 0
    /\ frames_data = <<>>
    /\ frame_num = 0
    /\ disk \in SampleFiles
    /\ error = "none"
    /\ log = <<>>
    /\ probe = Idle
    /\ report = Idle
    /\ progress_callback = "None"
    /\ NoBatch

NextValidate ==
    \/ ValidateJson
    \/ ValidatePoses

SpecValidate == InitValidate /\ [][NextValidate]_vars

----------------------------------------------------------------------------
(* Claims about the validators *)

\* the validator ran and handed back an (is_valid, errors) pair
Answered == pc = "validated" /\ report.out.exc = "none"

Errors == Range(report.out.errors)

\* the length-mismatch error of the validator that ran
MismatchError ==
    IF report.fn = "validate_json"
    THEN <<"Frame count mismatch">>
    ELSE <<"frames array length doesn't match totalFrames">>

\* the error for a frames value that is no list, of the validator that ran
FramesTypeError ==
    IF report.fn = "validate_json"
    THEN <<"frames must be a list">>
    ELSE <<"frames must be an array">>

\* the file is a JSON object / a JSON object with the four required fields
IsObject == disk.t = "dict"

MissingTopLevel == Range(required_fields) \ DOMAIN disk.v

HasRequiredFields == IsObject /\ MissingTopLevel = {}

\* C6: round trip: a document written by extract_poses_from_video is accepted
\* by validate_pose_json with an empty error list.
C6_RoundTrip ==
    (pc = "validated" /\ backend \in Backends) =>
        /\ report.out.exc = "none"
        /\ report.out.is_valid
        /\ report.out.errors = <<>>

\* C9: for a document with the four required fields and a list as frames, a
\* totalFrames that differs from the length of frames makes validate_pose_json
\* return is_valid = False with the length-mismatch error in the list.
C9_MismatchReported ==
    (/\ pc = "validated"
     /\ HasRequiredFields
     /\ disk.v.frames.t = "list"
     /\ LengthDiffers(disk.v.frames, disk.v.totalFrames)) =>
        /\ report.out.exc = "none"
        /\ ~report.out.is_valid
        /\ MismatchError \in Errors

C11_NeverThrows ==
    (pc = "validated" /\ disk \notin {NoFile, BadJson}) => report.out.exc = "none"

\* the frames of the file under validation, when frames is a non-empty list
HasFrames ==
    /\ HasRequiredFields
    /\ disk.v.frames.t = "list"
    /\ Len(disk.v.frames.v) > 0

FirstFrame == disk.v.frames.v[1]

LastFrame == disk.v.frames.v[Len(disk.v.frames.v)]

\* a frame object that lacks one of frameNumber, timestamp, keypoints, angles
LacksFrameField(f) ==
    f.t = "dict" /\ \E k \in Range(required_frame_fields) : k \notin DOMAIN f.v

\* a frame object with a keypoint entry that lacks x, y or confidence
HasBadKeypoint(f) ==
    /\ f.t = "dict"
    /\ "keypoints" \in DOMAIN f.v
    /\ f.v.keypoints.t = "dict"
    /\ \E n \in DOMAIN f.v.keypoints.v :
         LET kp == f.v.keypoints.v[n]
         IN  kp.t = "dict" /\ \E c \in Range(required_kp_fields) : c \notin DOMAIN kp.v

\* a frame object with a present angle that is no number or lies outside [0,180]
HasBadAngle(f) ==
    /\ f.t = "dict"
    /\ "angles" \in DOMAIN f.v
    /\ f.v.angles.t = "dict"
    /\ \E a \in DOMAIN f.v.angles.v :
         LET angle == f.v.angles.v[a]
         IN  ~IsNumber(angle) \/ NumValue(angle) < 0 \/ NumValue(angle) > 180

Defective(f) == LacksFrameField(f) \/ HasBadKeypoint(f) \/ HasBadAngle(f)

\* C12: for a document with a non-empty frames list, a defect of the first or of
\* the last frame (a missing frame field, a keypoint entry without x, y or
\* confidence, an angle that is no number or outside [0,180]) makes the
\* validator report an error.
C12_FirstAndLastInspected ==
    (/\ pc = "validated"
     /\ HasFrames
     /\ report.out.exc = "none"
     /\ (Defective(FirstFrame) \/ Defective(LastFrame))) =>
        /\ ~report.out.is_valid
        /\ report.out.errors # <<>>

----------------------------------------------------------------------------
(* YOLOv8PoseWrapper._extract_keypoints (yolov8_pose_model.py): the detector
   head used for export picks the best anchor of the raw prediction tensor *)

\* side of the square model input, in the pixel unit of FrameShape
INPUT_SIZE == 4 * MaxCoord

\* torch.clamp(v, lo, hi)
Clamp(v, lo, hi) == IF v < lo THEN lo ELSE IF v > hi THEN hi ELSE v

\* rows [17, 3] of zeros: keypoints_out as initialised
ZeroRows == [i \in 1..Len(KEYPOINT_NAMES) |-> <<0, 0, 0>>]

\* the prediction tensor has its 56 columns exactly when every anchor carries a
\* score next to its 51 keypoint values
HasScoreColumn(results) ==
    ~results.empty /\ ~results.keypoints_none /\ ~results.boxes_none
        /\ Len(results.conf) = Len(results.data)

\* _extract_keypoints for a batch of one
extract_keypoints(results) ==
    IF ~HasScoreColumn(results) THEN Ok(ZeroRows)
    ELSE IF Len(results.conf) = 0 THEN Raise("RuntimeError")
    ELSE LET best_idx == ArgMax(results.conf)
             best_det == results.data[best_idx]
         IN  Ok([i \in 1..Len(KEYPOINT_NAMES) |->
                    << Clamp((best_det[i][1] * MaxCoord) \div INPUT_SIZE, 0, MaxCoord),
                       Clamp((best_det[i][2] * MaxCoord) \div INPUT_SIZE, 0, MaxCoord),
                       Clamp(best_det[i][3], 0, 10) >>])

----------------------------------------------------------------------------
(* detect_pose on its own: one frame handed to a loaded detector *)

\* tensors of a single-pose model: 17 or 16 rows, normalised coordinates
ProbeRows ==
    { Rows("xyc", shape, conf, n) :
        shape \in {"bent", "straight"}, conf \in {0, 4, 9}, n \in {16, 17} }

\* one detection of the multi-pose model, in pixels of the frame
Candidates ==
    { Rows("pixels", shape, conf, 17) :
        shape \in {"bent", "straight", "outside"}, conf \in {4, 9} }

CandidateLists == UNION { [1..n -> Candidates] : n \in 0..2 }

Scores == {4, 8}

ProbeResults ==
    { NoResults, [NoResults EXCEPT !.empty = FALSE] }
    \cup { Results(data, TRUE, <<>>) : data \in CandidateLists }
    \cup UNION { { Results(data, FALSE, conf) : conf \in [1..Len(data) -> Scores] } :
                 data \in CandidateLists }

ProbeFrames ==
    { FrameInput(TRUE, <<>>, NoResults) }
    \cup { FrameInput(FALSE, rows, NoResults) : rows \in ProbeRows }
    \cup { FrameInput(FALSE, <<>>, results) : results \in ProbeResults }

LoadedDetector == [NoDetector EXCEPT !.has_model = TRUE]

InitDetect ==
    /\ backend = "none"
    /\ pc = "call"
    /\ detector = LoadedDetector
    /\ cap = "none"
    /\ fps = 0
    /\ total_frames = 0
    /\ stream = 0
    /\ frames_data = <<>>
    /\ frame_num = 0
    /\ disk = NoFile
    /\ error = "none"
    /\ log = <<>>
    /\ probe \in [fn : {"detect_pose"}, frame : ProbeFrames]
    /\ report = Idle
    /\ progress_callback = "None"
    /\ NoBatch

Detected(variant, out) ==
    /\ pc' = "returned"
    /\ report' = [fn |-> "detect_pose", variant |-> variant, out |-> out]
    /\ UNCHANGED <<backend, detector, cap, fps, total_frames, stream, frames_data,
                   frame_num, disk, error, log, probe>>
    /\ UNCHANGED <<progress_callback, batch_vars>>

CallDetectTFLite ==
    /\ pc = "call"
    /\ Detected("tflite", detect_pose_tflite(probe.frame))

CallDetectExecuTorch ==
    /\ pc = "call"
    /\ Detected("executorch", detect_pose_executorch(detector, probe.frame))

CallDetectYOLOv8 ==
    /\ pc = "call"
    /\ Detected("yolov8", detect_pose_yolov8(detector, probe.frame))

CallExtractKeypoints ==
    /\ pc = "call"
    /\ ~probe.frame.malformed
    /\ Detected("wrapper", extract_keypoints(probe.frame.results))

NextDetect ==
    \/ CallDetectTFLite
    \/ CallDetectExecuTorch
    \/ CallDetectYOLOv8
    \/ CallExtractKeypoints

SpecDetect == InitDetect /\ [][NextDetect]_vars

----------------------------------------------------------------------------
(* Claims about the Keypoint Detector *)

\* the frame handed to the detector carries no candidate at all
NoCandidate ==
    \/ probe.frame.results.empty
    \/ probe.frame.results.keypoints_none
    \/ Len(probe.frame.results.data) = 0

\* C13: detect_pose never raises on a single frame: for a malformed frame or a
\* frame with no candidate it returns the 17 keypoints at x = y = confidence = 0.
C13_DetectNeverRaises ==
    (pc = "returned" /\ report.variant \in Backends) =>
        /\ report.out.exc = "none"
        /\ (probe.frame.malformed \/ (report.variant = "yolov8" /\ NoCandidate))
              => report.out.value = ZeroKeypoints

\* keypoints of candidate i as _parse_results normalises them
NormalisedCandidate(i) ==
    [name \in KeypointNameSet |->
        LET row == probe.frame.results.data[i][IndexOf(name)]
        IN  Point((row[1] * MaxCoord) \div FrameShape[2],
                  (row[2] * MaxCoord) \div FrameShape[1],
                  row[3])]

\* rows of anchor i as _extract_keypoints normalises and clamps them
NormalisedAnchor(i) ==
    [k \in 1..Len(KEYPOINT_NAMES) |->
        LET row == probe.frame.results.data[i][k]
        IN  << Clamp((row[1] * MaxCoord) \div INPUT_SIZE, 0, MaxCoord),
               Clamp((row[2] * MaxCoord) \div INPUT_SIZE, 0, MaxCoord),
               Clamp(row[3], 0, 10) >>]

\* the frame has candidates and every candidate has a score
HasScoredCandidates ==
    /\ ~probe.frame.malformed
    /\ HasScoreColumn(probe.frame.results)
    /\ Len(probe.frame.results.data) > 0

IsBest(i) ==
    /\ i \in 1..Len(probe.frame.results.conf)
    /\ \A j \in 1..Len(probe.frame.results.conf) :
         probe.frame.results.conf[j] <= probe.frame.results.conf[i]

\* C14: when the model returns one or more scored candidates for the frame, the
\* keypoints returned are those of one candidate whose score is the maximum of
\* the frame's scores; the answer depends on this frame only.
C14_BestCandidate ==
    (pc = "returned" /\ HasScoredCandidates) =>
        /\ report.variant = "yolov8" =>
              /\ report.out.exc = "none"
              /\ \E i \in 1..Len(probe.frame.results.data) :
                    IsBest(i) /\ report.out.value = NormalisedCandidate(i)
        /\ report.variant = "wrapper" =>
              /\ report.out.exc = "none"
              /\ \E i \in 1..Len(probe.frame.results.data) :
                    IsBest(i) /\ report.out.value = NormalisedAnchor(i)

\* two candidates, the second with the higher score and another pose than the
\* first: the keypoints of the second are returned
C14_Witness ==
    /\ pc = "returned"
    /\ report.variant = "yolov8"
    /\ HasScoredCandidates
    /\ Len(probe.frame.results.data) = 2
    /\ probe.frame.results.conf[2] > probe.frame.results.conf[1]
    /\ NormalisedCandidate(1) # NormalisedCandidate(2)
    /\ report.out.value = NormalisedCandidate(2)

\* C15: every keypoint returned by the detector has x and y within [0,1] and
\* confidence within [0,1], also when the model places a keypoint outside the
\* frame.
C15_NormalisedRange ==
    (pc = "returned" /\ report.variant \in Backends /\ report.out.exc = "none") =>
        \A name \in DOMAIN report.out.value :
            /\ report.out.value[name].x \in 0..MaxCoord
            /\ report.out.value[name].y \in 0..MaxCoord
            /\ report.out.value[name].confidence \in 0..10

----------------------------------------------------------------------------
(* calculate_angles on its own: a keypoint mapping with some names absent *)

\* the twelve keypoints the four triples read
LimbNames ==
    {"leftShoulder", "rightShoulder", "leftElbow", "rightElbow",
     "leftWrist", "rightWrist", "leftHip", "rightHip",
     "leftKnee", "rightKnee", "leftAnkle", "rightAnkle"}

\* the four "if all(k in keypoints ...)" blocks and the alias each one feeds
Triples ==
    { [name |-> "leftArm", alias |-> "leftElbow",
       keys |-> {"leftShoulder", "leftElbow", "leftWrist"}],
      [name |-> "rightArm", alias |-> "rightElbow",
       keys |-> {"rightShoulder", "rightElbow", "rightWrist"}],
      [name |-> "leftThigh", alias |-> "leftLeg",
       keys |-> {"leftHip", "leftKnee", "leftAnkle"}],
      [name |-> "rightThigh", alias |-> "rightLeg",
       keys |-> {"rightHip", "rightKnee", "rightAnkle"}] }

\* names a mapping handed to calculate_angles may lack
Droppable == {"leftWrist", "rightElbow", "leftHip", "rightAnkle", "nose"}

KeypointMaps ==
    { [name \in KeypointNameSet \ missing |->
          LET xy == PoseXY(shape, name) IN Point(xy[1], xy[2], conf)] :
        shape \in {"bent", "straight"}, conf \in {2, 5, 9}, missing \in SUBSET Droppable }

InitAngles ==
    /\ backend = "none"
    /\ pc = "call"
    /\ detector = NoDetector
    /\ cap = "none"
    /\ fps = 0
    /\ total_frames = 0
    /\ stream = 0
    /\ frames_data = <<>>
    /\ frame_num = 0
    /\ disk = NoFile
    /\ error = "none"
    /\ log = <<>>
    /\ probe \in [fn : {"calculate_angles"}, keypoints : KeypointMaps]
    /\ report = Idle
    /\ progress_callback = "None"
    /\ NoBatch

ReturnedAngles(variant, result) ==
    /\ pc' = "returned"
    /\ report' = [fn |-> "calculate_angles", variant |-> variant, result |-> result]
    /\ UNCHANGED <<backend, detector, cap, fps, total_frames, stream, frames_data,
                   frame_num, disk, error, log, probe>>
    /\ UNCHANGED <<progress_callback, batch_vars>>

CallAnglesTFLite ==
    /\ pc = "call"
    /\ ReturnedAngles("tflite", calculate_angles_tflite(probe.keypoints))

CallAnglesExecuTorch ==
    /\ pc = "call"
    /\ ReturnedAngles("executorch", calculate_angles_executorch(probe.keypoints))

CallAnglesYOLOv8 ==
    /\ pc = "call"
    /\ ReturnedAngles("yolov8", calculate_angles_yolov8(probe.keypoints))

NextAngles ==
    \/ CallAnglesTFLite
    \/ CallAnglesExecuTorch
    \/ CallAnglesYOLOv8

SpecAngles == InitAngles /\ [][NextAngles]_vars

\* C17: for a keypoint mapping that has all twelve limb keypoints,
\* calculate_angles returns exactly the 8 canonical angle names, with
\* leftElbow = leftArm, rightElbow = rightArm, leftLeg = leftThigh and
\* rightLeg = rightThigh.
C17_EightAnglesWithAliases ==
    (pc = "returned" /\ LimbNames \subseteq DOMAIN probe.keypoints) =>
        /\ DOMAIN report.result = AngleNameSet
        /\ \A t \in Triples : report.result[t.alias] = report.result[t.name]

\* a full mapping with a right angle at both elbows and both knees
C17_Witness ==
    /\ pc = "returned"
    /\ LimbNames \subseteq DOMAIN probe.keypoints
    /\ DOMAIN report.result = AngleNameSet
    /\ \A t \in Triples : report.result[t.name] = 90 /\ report.result[t.alias] = 90

\* C18: when a keypoint of a triple is absent from the mapping, neither the
\* angle of that triple nor its alias is a key of the result.
C18_AbsentTripleOmitted ==
    pc = "returned" =>
        \A t \in Triples :
            ~(t.keys \subseteq DOMAIN probe.keypoints) =>
                /\ t.name \notin DOMAIN report.result
                /\ t.alias \notin DOMAIN report.result

----------------------------------------------------------------------------
(* Claims about the Angle Calculator *)

\* C16: in a written document the angles of a Frame are a function of that
\* Frame's keypoints only: two Frame records with equal keypoints mappings have
\* equal angles mappings, whichever path produced them.
C16_AnglesFunctionOfKeypoints ==
    Written =>
        \A i, j \in 1..Len(DocFrames) :
            DocFrames[i].v.keypoints = DocFrames[j].v.keypoints
                => DocFrames[i].v.angles = DocFrames[j].v.angles

\* C19: every value calculate_angle returns, for any three points and any
\* confidences, coincident points included, is a number of [0,180].
C19_AngleInRange ==
    (pc = "returned" /\ report.fn = "calculate_angle") => report.result \in 0..180

\* a call on confident points with p1 = p2 (a zero-length vector) that returned
\* 90, and so a number of [0,180]
C19_Witness ==
    /\ pc = "returned"
    /\ report.fn = "calculate_angle"
    /\ ~Gated
    /\ probe.p1.x = probe.p2.x
    /\ probe.p1.y = probe.p2.y
    /\ report.result = 90

\* C20: once the video is open, the end of the stream after k frames is no
\* error: extract_poses_from_video raises nothing but a failure to write the
\* file, and the document it writes has totalFrames = k, the number of frames
\* read, whatever the container's estimate was.
C20_StreamEndIsNotFatal ==
    /\ (pc = "raised" /\ cap \in {"open", "released"}) => error = "OSError"
    /\ pc \in {"done", "validated"} =>
          /\ Written
          /\ DocTotalFrames = Len(log)

----------------------------------------------------------------------------
(* Claims about one run of extract_poses_from_video as a whole *)

\* C21: the destination is written at most once, and only by the step that
\* ends the frame loop at stream exhaustion; a step that ends the run with a
\* fatal error of the detector load or of the video open leaves the file at
\* the destination path as it was.
C21_WrittenOnceAtEnd ==
    [][ /\ disk' # disk => (pc = "loop" /\ stream = 0 /\ pc' \in {"done", "raised"})
        /\ (pc \in {"load", "open"} /\ pc' = "raised") => disk' = disk
        /\ pc \in {"done", "validated", "raised"} => disk' = disk ]_vars

\* the video could not be opened and the file that lay at the path is still there
C21_Witness ==
    /\ pc = "raised"
    /\ error = "ValueError"
    /\ cap = "closed"
    /\ disk = OldFile

\* C22: the progress hook is an observer: whatever it does, no exception of the
\* hook leaves extract_poses_from_video, every frame of the source is processed
\* and the document is written from all of them.
C22_HookIsObserver ==
    progress_callback # "None" =>
        /\ error # "HookError"
        /\ pc \in {"done", "validated"} =>
              /\ stream = 0
              /\ disk = OutputJson(backend, fps, frame_num, frames_data)

\* top-level keys a variant may add to the required ones
OptionalMetadata == {"modelVersion", "modelAccuracy"}

\* C23: the documents of the three variants have one schema: the required
\* top-level keys songId, fps, totalFrames, frames, every frame with exactly
\* frameNumber, timestamp, keypoints, angles, each keypoint with x, y and
\* confidence, all of the same JSON types in every variant; what only one
\* variant writes is an optional top-level metadata key.
C23_SchemaStable ==
    Written =>
        /\ Range(required_fields) \subseteq DOMAIN disk.v
        /\ (DOMAIN disk.v) \ Range(required_fields) \subseteq OptionalMetadata
        /\ disk.v.songId.t = "str"
        /\ disk.v.fps.t = "float"
        /\ disk.v.totalFrames.t = "int"
        /\ disk.v.frames.t = "list"
        /\ \A i \in 1..Len(DocFrames) :
             LET f == DocFrames[i].v
             IN  /\ DOMAIN f = Range(required_frame_fields)
                 /\ f.frameNumber.t = "int"
                 /\ f.timestamp.t = "float"
                 /\ f.keypoints.t = "dict"
                 /\ f.angles.t = "dict"
                 /\ \A name \in DOMAIN f.keypoints.v :
                      /\ name \in KeypointNameSet
                      /\ DOMAIN f.keypoints.v[name].v = Range(required_kp_fields)
                 /\ \A a \in DOMAIN f.angles.v :
                      a \in AngleNameSet /\ f.angles.v[a].t = "float"

\* a YOLOv8 document with its two model tags and a detected frame
C23_Witness ==
    /\ Written
    /\ backend = "yolov8"
    /\ OptionalMetadata \subseteq DOMAIN disk.v
    /\ Len(DocFrames) > 0
    /\ "detected" \in Range(log)

\* C25: the calculate_angles of the YOLOv8 variant gives the results of the
\* calculate_angles of the ExecuTorch and TFLite variants: on every keypoints
\* mapping the three return the same angle names with the same values.
C25_VariantsAgree ==
    pc = "returned" =>
        /\ calculate_angles_yolov8(probe.keypoints)
              = calculate_angles_executorch(probe.keypoints)
        /\ calculate_angles_executorch(probe.keypoints)
              = calculate_angles_tflite(probe.keypoints)

\* C26: an ExecuTorchPoseDetector whose constructor returned holds a loaded
\* model, also when use_executorch was True and the ExecuTorch runtime or
\* model could not be loaded (fallback to the PyTorch model).
C26_FallsBackToPyTorch ==
    (backend = "executorch" /\ cap # "none") => Loaded

\* C29: on every return path of validate_pose_json, is_valid is true exactly
\* when the returned error list is empty.
C29_ValidIffNoErrors ==
    Answered => (report.out.is_valid <=> report.out.errors = <<>>)

\* a return of the early path for a missing field: is_valid false, one error
C29_Witness ==
    /\ Answered
    /\ IsObject
    /\ MissingTopLevel # {}
    /\ ~report.out.is_valid
    /\ report.out.errors # <<>>

\* C30: once the video capture has been opened, it is released on every way
\* extract_poses_from_video can end: normal completion, an exception of a
\* frame, an exception of the progress hook, a failure of the write.
C30_CaptureReleased ==
    pc \in {"done", "validated", "raised"} => cap # "open"

----------------------------------------------------------------------------
(* The command-line tools batch_process.py, batch_process_yolov8.py and
   regenerate_poses.py.  A file name is the record of its stem and its
   extension; a directory maps the names of its files to their content.
   regenerate_poses.main is modelled from line 232 on, its videos directory
   existing; a poses directory that does not exist behaves as an empty one
   (backup_existing_poses and delete_old_poses return 0, mkdir creates it). *)

\* every file name there is, in the order of Python's comparison of Paths
NameOrder ==
    << [stem |-> "a", ext |-> ".avi"],
       [stem |-> "a", ext |-> ".mp4"],
       [stem |-> "b", ext |-> ".MP4"],
       [stem |-> "c", ext |-> ".mp4"],
       [stem |-> "notes", ext |-> ".txt"] >>

\* the lists one `for ext in patterns: video_files.extend(glob('*' + ext))`
\* can build: the matches of one pattern come in the order of the directory
RECURSIVE Globbed(_, _)
Globbed(names, patterns) ==
    IF patterns = <<>>
    THEN { <<>> }
    ELSE LET matches == { f \in names : f.ext = Head(patterns) }
             orders == { s \in [1..Cardinality(matches) -> matches] :
                           \A i, j \in DOMAIN s : i # j => s[i] # s[j] }
         IN  { first \o rest : first \in orders,
                               rest \in Globbed(names, Tail(patterns)) }

\* the video_files lists a tool can enumerate in a directory
find_videos(t, names) ==
    CASE t = "batch_process" ->
           Globbed(names, <<".mp4", ".avi", ".mov", ".mkv">>)
      [] t = "batch_process_yolov8" ->
           Globbed(names, <<".mp4", ".MP4", ".avi", ".AVI", ".mov", ".MOV",
                            ".mkv", ".MKV", ".webm", ".WEBM">>)
      [] t = "regenerate_poses" ->
           { SelectSeq(NameOrder, LAMBDA f : f \in Range(l)) :
               l \in Globbed(names, <<".mp4", ".avi", ".mov", ".mkv", ".webm",
                                      ".MP4", ".AVI", ".MOV">>) }

\* the document extract_poses_from_video writes for a video: songId is the
\* stem of the video path, frames stands for the frames read from that video
DocumentOf(video_file) ==
    [songId |-> video_file.stem, frames |-> video_file]

\* a backup that copies nothing
CopyNone(files, names) == EmptyDict

\* shutil.copy of each of the named files of a directory
CopyAll(files, names) == [n \in names |-> files[n]]

\* a failure that is not recorded
ForgetFailure(failed, name, e) == failed

\* failed_videos.append((video_file.name, str(e)))
RecordFailure(failed, name, e) == Append(failed, <<name, e>>)

InitBatch ==
    /\ tool \in {"batch_process", "batch_process_yolov8", "regenerate_poses"}
    /\ args \in [no_backup : BOOLEAN, no_delete : BOOLEAN]
    /\ tool # "regenerate_poses" => args = [no_backup |-> FALSE, no_delete |-> FALSE]
    /\ backend = IF tool = "batch_process" THEN "tflite" ELSE "yolov8"
    /\ pc = IF tool = "regenerate_poses" THEN "backup" ELSE "find"
    /\ videos_dir \in SUBSET Range(NameOrder)
    /\ \E existing \in SUBSET { [stem |-> "a", ext |-> ".json"],
                                [stem |-> "old", ext |-> ".json"],
                                [stem |-> "cover", ext |-> ".png"] } :
         poses_dir = [n \in existing |->
                        DocumentOf([stem |-> n.stem, ext |-> ".mov"])]
    /\ backup_dir = EmptyDict
    /\ video_files = <<>>
    /\ index = 0
    /\ success_count = 0
    /\ failed_videos = <<>>
    /\ detector = NoDetector
    /\ cap = "none"
    /\ fps = 0
    /\ total_frames = 0
    /\ stream = 0
    /\ frames_data = <<>>
    /\ frame_num = 0
    /\ disk = NoFile
    /\ error = "none"
    /\ log = <<>>
    /\ probe = Idle
    /\ report = Idle
    /\ progress_callback = "None"

\* main, lines 232-236: the backup step.  shutil.copy can fail on any file:
\* the files copied before it stay in the backup and the exception leaves main
BackupExistingPoses ==
    /\ pc = "backup"
    /\ LET json_files == { n \in DOMAIN poses_dir : n.ext = ".json" }
       IN  IF args.no_backup \/ json_files = {}
           THEN pc' = "delete" /\ UNCHANGED <<backup_dir, error>>
           ELSE \E copied \in SUBSET json_files :
                  /\ backup_dir' = CopyAll(poses_dir, copied)
                  /\ IF copied = json_files
                     THEN pc' = "delete" /\ UNCHANGED error
                     ELSE pc' = "aborted" /\ error' = "OSError"
    /\ UNCHANGED <<tool, args, videos_dir, video_files, index, poses_dir,
                   success_count, failed_videos>>
    /\ UNCHANGED <<backend, detector, cap, fps, total_frames, stream,
                   frames_data, frame_num, disk, log, probe, report,
                   progress_callback>>

\* main, lines 238-242: the delete step.  unlink can fail on any file: the
\* files unlinked before it are gone and the exception leaves main
DeleteOldPoses ==
    /\ pc = "delete"
    /\ LET json_files == { n \in DOMAIN poses_dir : n.ext = ".json" }
       IN  IF args.no_delete \/ json_files = {}
           THEN pc' = "find" /\ UNCHANGED <<poses_dir, error>>
           ELSE \E unlinked \in SUBSET json_files :
                  /\ poses_dir' = [n \in DOMAIN poses_dir \ unlinked |-> poses_dir[n]]
                  /\ IF unlinked = json_files
                     THEN pc' = "find" /\ UNCHANGED error
                     ELSE pc' = "aborted" /\ error' = "OSError"
    /\ UNCHANGED <<tool, args, videos_dir, video_files, index, backup_dir,
                   success_count, failed_videos>>
    /\ UNCHANGED <<backend, detector, cap, fps, total_frames, stream,
                   frames_data, frame_num, disk, log, probe, report,
                   progress_callback>>

\* the enumeration of the videos and the start of the loop; with no video
\* the tool returns at once
FindVideos ==
    /\ pc = "find"
    /\ video_files' \in find_videos(tool, videos_dir)
    /\ pc' = IF video_files' = <<>> THEN "finished" ELSE "loop"
    /\ success_count' = 0
    /\ failed_videos' = <<>>
    /\ UNCHANGED <<tool, args, videos_dir, index, poses_dir, backup_dir>>
    /\ UNCHANGED <<backend, detector, cap, fps, total_frames, stream,
                   frames_data, frame_num, disk, error, log, probe, report,
                   progress_callback>>

\* one iteration of the loop over video_files.  extract_poses_from_video
\* returns with the document written, or raises: before the write (nothing
\* written) or in the write (nothing written, or a truncated file)
ProcessVideo ==
    /\ pc = "loop"
    /\ index < Len(video_files)
    /\ LET video_file == video_files[index + 1]
           output_file == [stem |-> video_file.stem, ext |-> ".json"]
       IN  /\ log' = Append(log, video_file)
           /\ \E outcome \in { [exc |-> "none", file |-> DocumentOf(video_file)],
                               [exc |-> "ValueError", file |-> NoFile],
                               [exc |-> "OSError", file |-> NoFile],
                               [exc |-> "OSError", file |-> BadJson] } :
                /\ poses_dir' = IF outcome.file = NoFile
                                THEN poses_dir
                                ELSE Put(poses_dir, output_file, outcome.file)
                /\ IF outcome.exc = "none"
                   THEN /\ success_count' = success_count + 1
                        /\ UNCHANGED failed_videos
                   ELSE /\ failed_videos' =
                             RecordFailure(failed_videos, video_file, outcome.exc)
                        /\ UNCHANGED success_count
    /\ index' = index + 1
    /\ UNCHANGED <<tool, args, videos_dir, video_files, backup_dir, pc>>
    /\ UNCHANGED <<backend, detector, cap, fps, total_frames, stream,
                   frames_data, frame_num, disk, error, probe, report,
                   progress_callback>>

\* the loop is over: the summary is printed and the tool returns
Summary ==
    /\ pc = "loop"
    /\ index = Len(video_files)
    /\ pc' = "finished"
    /\ UNCHANGED <<backend, detector, cap, fps, total_frames, stream,
                   frames_data, frame_num, disk, error, log, probe, report,
                   progress_callback, batch_vars>>

NextBatch ==
    \/ BackupExistingPoses
    \/ DeleteOldPoses
    \/ FindVideos
    \/ ProcessVideo
    \/ Summary

SpecBatch == InitBatch /\ [][NextBatch]_vars

----------------------------------------------------------------------------
(* Claims about the command-line tools *)

\* C24 as stated: in regenerate_poses.main every pose document that is deleted
\* from the output directory has been copied to the backup directory before,
\* deletion happens before any new document is written, and nothing is
\* deleted once the backup step has raised.
C24_BackupThenReplace ==
    [][ tool = "regenerate_poses" =>
          LET removed == DOMAIN poses_dir \ DOMAIN poses_dir'
          IN  /\ \A n \in removed :
                    n \in DOMAIN backup_dir /\ backup_dir[n] = poses_dir[n]
              /\ removed # {} => (pc = "delete" /\ log = <<>>)
              /\ pc \in {"backup", "aborted"} => poses_dir' = poses_dir ]_vars

\* C24 (amended): unless --no-backup is given, every pose document that is
\* deleted from the output directory has been copied to the backup directory
\* before, with its content; in every run deletion happens only in the delete
\* step, before any video is processed, and nothing is deleted in the backup
\* step or after an exception has left main.
C24_BackupUnlessSkipped ==
    [][ tool = "regenerate_poses" =>
          LET removed == DOMAIN poses_dir \ DOMAIN poses_dir'
          IN  /\ ~args.no_backup =>
                    \A n \in removed :
                       n \in DOMAIN backup_dir /\ backup_dir[n] = poses_dir[n]
              /\ removed # {} => (pc = "delete" /\ log = <<>>)
              /\ pc \in {"backup", "aborted"} => poses_dir' = poses_dir ]_vars

\* a full regeneration: the old documents are in the backup and gone from the
\* output directory, which holds a document of this run
C24_Witness ==
    /\ tool = "regenerate_poses"
    /\ ~args.no_backup /\ ~args.no_delete
    /\ pc = "finished"
    /\ [stem |-> "old", ext |-> ".json"] \in DOMAIN backup_dir
    /\ [stem |-> "old", ext |-> ".json"] \notin DOMAIN poses_dir
    /\ [stem |-> "a", ext |-> ".json"] \in DOMAIN backup_dir
    /\ [stem |-> "a", ext |-> ".json"] \in DOMAIN poses_dir
    /\ poses_dir[[stem |-> "a", ext |-> ".json"]]
         = DocumentOf([stem |-> "a", ext |-> ".mp4"])

\* C27: in the three tools every enumerated video is attempted exactly once, in
\* the order of the enumeration, whatever happened to the videos before it:
\* while the loop runs the attempts are the first `index` videos and each is
\* counted once, as a success or as a recorded failure; the loop is only left
\* when all have been attempted and no exception leaves it, so at the end
\* success_count plus the number of recorded failures is the number of
\* enumerated videos.
C27_EveryVideoAttemptedOnce ==
    pc \in {"loop", "finished"} =>
        /\ log = SubSeq(video_files, 1, index)
        /\ success_count + Len(failed_videos) = index
        /\ pc = "finished" => index = Len(video_files)
        /\ error = "none"

\* a run in which the first video failed and a later one succeeded
C27_Witness ==
    /\ pc = "finished"
    /\ Len(video_files) >= 3
    /\ Len(failed_videos) >= 1
    /\ failed_videos[1][1] = video_files[1]
    /\ success_count >= 1
    /\ success_count + Len(failed_videos) = Len(video_files)

\* C28: a document written for one video of the batch is never replaced by the
\* document of another video of the same batch.
C28_OneDocumentPerVideo ==
    [][ \A n \in DOMAIN poses_dir \cap DOMAIN poses_dir' :
          \A v, w \in Range(video_files) :
             (poses_dir[n] = DocumentOf(v) /\ poses_dir'[n] = DocumentOf(w))
                => v = w ]_vars
====
